---- MODULE Spec2Model ----
(***************************************************************************)
(* A model of the marketplace link bot (src/main.py): the message handler  *)
(* on_message, the scrape pipeline scrape_facebook_marketplace with its    *)
(* container locator, field extractors and retry pass, and the browser     *)
(* sessions the pipeline opens and quits.                                  *)
(*                                                                         *)
(* Texts are TLA+ strings and the string tests of the code (count, in,     *)
(* startswith, split, strip, lower, the price and location patterns) are   *)
(* computed on them character by character.  A DOM element is a record of  *)
(* its tag, attributes, ancestors' attributes and texts; a CSS selector of *)
(* the code is evaluated on that record.                                   *)
(***************************************************************************)
EXTENDS Integers, Sequences, FiniteSets, TLC

\* ------------------------------------------------------------------------
\* Python string operations used by the code
\* ------------------------------------------------------------------------

\* s[i] as a one-character string
Ch(s, i) == SubSeq(s, i, i)

\* s.count(c) for a one-character c
Count(s, c) == Cardinality({i \in 1..Len(s) : Ch(s, i) = c})

\* the first index at which sub occurs in s, 0 when it does not (s.find + 1)
Find(s, sub) ==
    LET hits == {i \in 1..(Len(s) - Len(sub) + 1) : SubSeq(s, i, i + Len(sub) - 1) = sub}
    IN  IF hits = {} THEN 0 ELSE CHOOSE i \in hits : \A j \in hits : i <= j

\* sub in s
Contains(s, sub) == Find(s, sub) # 0

\* s.startswith(sub)
StartsWith(s, sub) == Len(s) >= Len(sub) /\ SubSeq(s, 1, Len(sub)) = sub

IsSpace(c) == c = " "

\* s.strip()
Strip(s) ==
    LET keep == {i \in 1..Len(s) : ~IsSpace(Ch(s, i))}
    IN  IF keep = {} THEN ""
        ELSE SubSeq(s, CHOOSE i \in keep : \A j \in keep : i <= j,
                       CHOOSE i \in keep : \A j \in keep : j <= i)

\* s.split(sub, 1): the parts before and after the first occurrence of sub
Split1(s, sub) ==
    LET i == Find(s, sub)
    IN  IF i = 0 THEN <<s>>
        ELSE <<SubSeq(s, 1, i - 1), SubSeq(s, i + Len(sub), Len(s))>>

Digits == "0123456789"
UpperLetters == "ABCDEFGHIJKLMNOPQRSTUVWXYZ"
LowerLetters == "abcdefghijklmnopqrstuvwxyz"

IsDigit(c) == Contains(Digits, c)
IsUpper(c) == Contains(UpperLetters, c)
IsLower(c) == Contains(LowerLetters, c)
\* \w of the re module on the characters the pages hold
IsWord(c) == IsDigit(c) \/ IsUpper(c) \/ IsLower(c) \/ c = "_"

\* any(c.isdigit() for c in s)
HasDigit(s) == \E i \in 1..Len(s) : IsDigit(Ch(s, i))

LowerChar(c) == IF IsUpper(c) THEN Ch(LowerLetters, Find(UpperLetters, c)) ELSE c
UpperChar(c) == IF IsLower(c) THEN Ch(UpperLetters, Find(LowerLetters, c)) ELSE c

RECURSIVE Lower(_)
\* s.lower()
Lower(s) == IF s = "" THEN "" ELSE LowerChar(Head(s)) \o Lower(Tail(s))

RECURSIVE Upper(_)
\* s.upper()
Upper(s) == IF s = "" THEN "" ELSE UpperChar(Head(s)) \o Upper(Tail(s))

\* the length of the longest run of characters of class cls(_) that starts at i
RECURSIVE RunLen(_, _, _)
RunLen(s, i, cls) ==
    IF i > Len(s) THEN 0
    ELSE IF Contains(cls, Ch(s, i)) THEN 1 + RunLen(s, i + 1, cls) ELSE 0

PriceClass == Digits \o ","
WordSpaceClass == Digits \o UpperLetters \o LowerLetters \o "_ "
WordSpaceCommaClass == WordSpaceClass \o ","
LabelSepClass == " :"

\* re.search(r'\$\s*[\d,]+(?:\.\d{2})?', s): the matched text, "" for no match
PriceMatchAt(s, i) ==
    LET j == i + 1 + RunLen(s, i + 1, " ")
        n == RunLen(s, j, PriceClass)
        k == j + n
        cents == k + 2 <= Len(s) /\ Ch(s, k) = "." /\ IsDigit(Ch(s, k + 1))
                 /\ IsDigit(Ch(s, k + 2))
    IN  IF Ch(s, i) # "$" \/ n = 0 THEN ""
        ELSE SubSeq(s, i, IF cents THEN k + 2 ELSE k - 1)

price_match(s) ==
    LET hits == {i \in 1..Len(s) : PriceMatchAt(s, i) # ""}
    IN  IF hits = {} THEN ""
        ELSE PriceMatchAt(s, CHOOSE i \in hits : \A j \in hits : i <= j)

\* ------------------------------------------------------------------------
\* DOM elements and selectors
\* ------------------------------------------------------------------------

\* A DOM element: its tag, its attributes ("name=value"), the attributes of its
\* ancestors, the tag of its previous sibling, its rendered text, its own text
\* node, its parent's text, and which accesses raise (a stale reference).
Elem(tag, attrs, anc, text) ==
    [tag |-> tag, attrs |-> attrs, anc |-> anc, prev |-> "", text |-> text,
     own |-> text, parent |-> text, parentErr |-> FALSE, err |-> FALSE]

\* element.get_attribute(name): "" stands for None
get_attribute(el, name) ==
    LET have == {a \in el.attrs : StartsWith(a, name \o "=")}
    IN  IF have = {} THEN ""
        ELSE LET a == CHOOSE a \in have : TRUE IN SubSeq(a, Len(name) + 2, Len(a))

\* A CSS selector: an optional tag, attributes held exactly, attributes held by
\* substring (name*='part'), attributes some ancestor must hold (descendant
\* combinator) and the tag of the previous sibling (the + combinator).
Sel(tag, attrs) == [tag |-> tag, attrs |-> attrs, subs |-> {}, anc |-> {}, prev |-> ""]
SelSub(tag, name, part) ==
    [tag |-> tag, attrs |-> {}, subs |-> {<<name, part>>}, anc |-> {}, prev |-> ""]
SelIn(ancAttr, tag) == [tag |-> tag, attrs |-> {}, subs |-> {}, anc |-> {ancAttr}, prev |-> ""]
SelAfter(prevTag, tag) == [tag |-> tag, attrs |-> {}, subs |-> {}, anc |-> {}, prev |-> prevTag]

Matches(sel, el) ==
    /\ sel.tag = "" \/ el.tag = sel.tag
    /\ sel.attrs \subseteq el.attrs
    /\ \A sub \in sel.subs : Contains(get_attribute(el, sub[1]), sub[2])
    /\ sel.anc \subseteq el.anc
    /\ sel.prev = "" \/ el.prev = sel.prev

\* node.find_elements(By.CSS_SELECTOR, group) on the descendants kids, in
\* document order; group is the set of selectors of a comma-separated list
find_elements(kids, group) == SelectSeq(kids, LAMBDA el : \E sel \in group : Matches(sel, el))

\* node.find_elements(By.XPATH, ".//*[contains(text(), '$')]")
find_elements_dollar(kids) == SelectSeq(kids, LAMBDA el : Contains(el.own, "$"))

\* The elements of es a loop body sees before an access raises and the
\* enclosing except clause abandons the loop.
BeforeError(es) ==
    LET bad == {i \in 1..Len(es) : es[i].err}
    IN  IF bad = {} THEN es
        ELSE SubSeq(es, 1, (CHOOSE i \in bad : \A j \in bad : i <= j) - 1)

\* The value Val gives for the first element of es it accepts (<<v>>), <<>>
\* when it accepts none: "for element in elements: if ...: return ...".
FirstHit(es, Val(_)) ==
    LET hits == {i \in 1..Len(es) : Val(es[i]) # <<>>}
    IN  IF hits = {} THEN <<>>
        ELSE Val(es[CHOOSE i \in hits : \A j \in hits : i <= j])

\* The first hit over a list of selector groups, tried in order, each
\* selector's loop inside its own try/except-continue.
FirstOverSelectors(kids, sels, Val(_)) ==
    LET hitOf(i) == FirstHit(BeforeError(find_elements(kids, sels[i])), Val)
        hits == {i \in 1..Len(sels) : hitOf(i) # <<>>}
    IN  IF hits = {} THEN <<>>
        ELSE hitOf(CHOOSE i \in hits : \A j \in hits : i <= j)

\* ------------------------------------------------------------------------
\* Container locator
\* ------------------------------------------------------------------------

\* A container node of the page: an element with the descendants (kids, in
\* document order) the extractors query; err: inspecting it raises.
Node(name, tag, attrs, kids) ==
    [name |-> name, tag |-> tag, attrs |-> attrs, anc |-> {}, prev |-> "",
     kids |-> kids, err |-> FALSE]

NoElement == Node("none", "", {}, <<>>)

container_selectors ==
    << {Sel("", {"data-testid=marketplace_pdp_container"})},
       {Sel("", {"data-pagelet=MarketplacePermalinkRoot"})},
       {Sel("div", {"role=main"})},
       {Sel("div", {"class=x1qjc9v5", "class=x78zum5", "class=x1q0g3np"})},
       {Sel("", {"class=xrvj5dj", "class=x1gslohp"})},
       {Sel("", {"class=x78zum5", "class=xdt5ytf"})} >>

heading_selectors == {Sel("h1", {}), Sel("", {"role=heading"}), Sel("span", {"class=x193iq5w"})}

has_title(container) == Len(find_elements(container.kids, heading_selectors)) > 0
has_price(container) == Len(find_elements_dollar(container.kids)) > 0

\* the candidate test of the locator's inner loop
Qualifies(container) == IF has_title(container) /\ has_price(container) THEN <<container>> ELSE <<>>

\* find_main_listing_container(driver) on the page the session shows: the
\* element returned, or raised when the body lookup of the fallback raises
find_main_listing_container(page) ==
    LET hit == FirstOverSelectors(page.nodes, container_selectors, Qualifies)
    IN  IF hit # <<>> THEN [raised |-> FALSE, el |-> hit[1]]
        ELSE IF page.bodyErr THEN [raised |-> TRUE, el |-> NoElement]
        ELSE [raised |-> FALSE, el |-> page.body]

\* ------------------------------------------------------------------------
\* Field extractors
\* ------------------------------------------------------------------------

TitleNotFound == "Title not found"
PriceNotFound == "Price not found"
LocationNotFound == "Location not found"
DescriptionNotFound == "Description not found"

title_selectors ==
    << {Sel("h1", {})},
       {Sel("", {"role=heading"})},
       {Sel("", {"data-testid=marketplace-listing-item-title"})},
       {Sel("", {"data-testid=marketplace_pdp_title"})},
       {Sel("", {"class=x1heor9g"})},
       {Sel("span", {"class=x193iq5w"})},
       {Sel("", {"class=xt0psk2"})} >>

dir_auto == {Sel("div", {"dir=auto"})}

TitleVal(el) ==
    LET text == Strip(el.text)
    IN  IF /\ text # "" /\ 5 < Len(text) /\ Len(text) < 100
           /\ ~StartsWith(text, "Browse")
           /\ ~Contains(text, "Create new listing")
           /\ Count(text, "$") <= 1
           /\ ~Contains(Lower(text), "similar")
        THEN <<text>> ELSE <<>>

TitleFallbackVal(el) ==
    LET text == Strip(el.text)
    IN  IF /\ text # "" /\ 10 < Len(text) /\ Len(text) < 100
           /\ Upper(text) # text
           /\ Count(text, "$") <= 1
        THEN <<text>> ELSE <<>>

extract_title_from_container(container) ==
    LET hit == FirstOverSelectors(container.kids, title_selectors, TitleVal)
        fb  == FirstHit(BeforeError(find_elements(container.kids, dir_auto)), TitleFallbackVal)
    IN  IF hit # <<>> THEN hit[1]
        ELSE IF fb # <<>> THEN fb[1]
        ELSE TitleNotFound

price_selectors ==
    << {Sel("", {"data-testid=marketplace_pdp_price"})},
       {Sel("span", {"class=x193iq5w"})},
       {Sel("", {"class=x1j85h84"})},
       {SelAfter("h1", "span")},
       {SelIn("class=x1fcty0u", "span")} >>

PriceVal(el) ==
    LET text == Strip(el.text)
        parent_text == IF el.parentErr THEN "" ELSE el.parent
    IN  IF Contains(text, "$") /\ HasDigit(text) /\ Count(parent_text, "$") <= 1
        THEN IF Len(text) > 15 /\ price_match(text) # ""
             THEN <<Strip(price_match(text))>>
             ELSE <<text>>
        ELSE <<>>

PriceXPathVal(el) ==
    LET text == Strip(el.text)
    IN  IF /\ Contains(text, "$") /\ HasDigit(text)
           /\ Len(text) < 30 /\ Count(text, "$") = 1
        THEN IF price_match(text) # "" THEN <<Strip(price_match(text))>> ELSE <<text>>
        ELSE <<>>

extract_price_from_container(container) ==
    LET hit == FirstOverSelectors(container.kids, price_selectors, PriceVal)
        xp  == FirstHit(BeforeError(find_elements_dollar(container.kids)), PriceXPathVal)
    IN  IF hit # <<>> THEN hit[1]
        ELSE IF xp # <<>> THEN xp[1]
        ELSE PriceNotFound

location_selectors ==
    << {Sel("", {"data-testid=marketplace_pdp_location"})},
       {Sel("div", {"class=x1xmf6yo"})},
       {Sel("", {"class=x1e56ztr"})},
       {Sel("", {"class=x1lliihq"})} >>

location_phrases == <<"Browse all", "Categories", "Nearby", "Within">>

\* for phrase in [...]: if phrase in text: text = text.split(phrase, 1)[0].strip()
RECURSIVE CutAtPhrases(_, _, _)
CutAtPhrases(text, phrases, i) ==
    IF i > Len(phrases) THEN text
    ELSE CutAtPhrases(IF Contains(text, phrases[i])
                      THEN Strip(Split1(text, phrases[i])[1]) ELSE text,
                      phrases, i + 1)

LocationVal(el) ==
    LET text == Strip(el.text)
        unlabelled == IF Contains(text, "Location") /\ Contains(text, ":")
                      THEN Strip(Split1(text, ":")[2]) ELSE text
    IN  IF /\ text # "" /\ Len(text) < 100
           /\ (Contains(text, "Location") \/ Contains(text, ","))
           /\ ~Contains(text, "$")
        THEN <<CutAtPhrases(unlabelled, location_phrases, 1)>>
        ELSE <<>>

\* text[i..] starts with ", " and two capital letters
StateSuffixAt(s, i) ==
    /\ i + 3 <= Len(s)
    /\ SubSeq(s, i, i + 1) = ", "
    /\ IsUpper(Ch(s, i + 2)) /\ IsUpper(Ch(s, i + 3))

\* re.compile(r'Location[\s:]+([\w\s,]+)').search(s): <<group 1>> or <<>>
LabelPatternAt(s, i) ==
    LET j == i + Len("Location")
        sep == RunLen(s, j, LabelSepClass)
        n == RunLen(s, j + sep, WordSpaceCommaClass)
    IN  IF i + Len("Location") - 1 > Len(s) \/ SubSeq(s, i, j - 1) # "Location" \/ sep = 0
        THEN <<>>
        ELSE IF n > 0 THEN <<SubSeq(s, j + sep, j + sep + n - 1)>>
        ELSE IF sep >= 2 /\ Ch(s, j + sep - 1) = " " THEN <<" ">>
        ELSE <<>>

\* re.compile(r'in ([\w\s]+, [A-Z]{2})').search(s)
InPatternAt(s, i) ==
    LET n == RunLen(s, i + 3, WordSpaceClass)
    IN  IF i + 2 <= Len(s) /\ SubSeq(s, i, i + 2) = "in " /\ n > 0
           /\ StateSuffixAt(s, i + 3 + n)
        THEN <<SubSeq(s, i + 3, i + 3 + n + 3)>> ELSE <<>>

\* re.compile(r'([\w\s]+, [A-Z]{2})').search(s)
CityStatePatternAt(s, i) ==
    LET n == RunLen(s, i, WordSpaceClass)
    IN  IF n > 0 /\ StateSuffixAt(s, i + n)
        THEN <<SubSeq(s, i, i + n + 3)>> ELSE <<>>

\* pattern.search: the match at the leftmost position that has one
Search(s, At(_, _)) ==
    LET hits == {i \in 1..Len(s) : At(s, i) # <<>>}
    IN  IF hits = {} THEN <<>> ELSE At(s, CHOOSE i \in hits : \A j \in hits : i <= j)

LocationPatternVal(el) ==
    LET text == Strip(el.text)
        m1 == Search(text, LabelPatternAt)
        m2 == Search(text, InPatternAt)
        m3 == Search(text, CityStatePatternAt)
        parts == Split1(text, ",")
    IN  IF text # "" /\ Len(text) < 100 /\ ~Contains(text, "$")
        THEN IF m1 # <<>> THEN <<Strip(m1[1])>>
             ELSE IF m2 # <<>> THEN <<Strip(m2[1])>>
             ELSE IF m3 # <<>> THEN <<Strip(m3[1])>>
             ELSE IF /\ Contains(text, ",") /\ Len(text) < 50
                     /\ Count(text, ",") = 1
                     /\ Strip(parts[1]) # "" /\ Strip(parts[2]) # ""
                  THEN <<text>>
             ELSE <<>>
        ELSE <<>>

span_or_div == {Sel("span", {}), Sel("div", {})}

extract_location_from_container(container) ==
    LET hit == FirstOverSelectors(container.kids, location_selectors, LocationVal)
        \* the pattern pass wraps each element in its own try/except-continue
        readable == SelectSeq(find_elements(container.kids, span_or_div), LAMBDA el : ~el.err)
        pat == FirstHit(readable, LocationPatternVal)
    IN  IF hit # <<>> THEN hit[1]
        ELSE IF pat # <<>> THEN pat[1]
        ELSE LocationNotFound

description_selectors ==
    << {Sel("", {"data-testid=marketplace_listing_item_description"})},
       {Sel("", {"data-testid=marketplace_pdp_description"})},
       {Sel("", {"class=xz9dl7a"})},
       {SelSub("", "aria-label", "description")},
       {Sel("", {"class=x1gslohp"})},
       {Sel("", {"class=xw7yly9"})} >>

DescriptionAccepts(text) ==
    /\ text # "" /\ Len(text) > 20
    /\ ~Contains(text, "Browse all")
    /\ ~Contains(text, "Categories")
    /\ ~Contains(text, "Nearby Cities")
    /\ Count(text, "$") <= 1

DescriptionFallbackAccepts(text) ==
    /\ text # "" /\ Len(text) > 40
    /\ ~Contains(text, "Browse all")
    /\ ~Contains(text, "Categories")
    /\ Count(text, "$") <= 1

description_ui_words == {"browse all", "create new", "categories", "miles", "nearby"}

\* the accepted texts of es, in order
AcceptedTexts(es, Accepts(_)) ==
    LET ok == SelectSeq(es, LAMBDA el : Accepts(Strip(el.text)))
    IN  [i \in 1..Len(ok) |-> Strip(ok[i].text)]

\* description_candidates: candidates appended before a selector's loop raises stay
RECURSIVE DescriptionCandidates(_, _)
DescriptionCandidates(kids, i) ==
    IF i > Len(description_selectors) THEN <<>>
    ELSE AcceptedTexts(BeforeError(find_elements(kids, description_selectors[i])),
                       DescriptionAccepts)
         \o DescriptionCandidates(kids, i + 1)

\* max(texts, key=len): the first of the longest
MaxByLen(texts) ==
    texts[CHOOSE i \in 1..Len(texts) :
            /\ \A j \in 1..Len(texts) : Len(texts[j]) <= Len(texts[i])
            /\ \A j \in 1..(i - 1) : Len(texts[j]) < Len(texts[i])]

extract_description_from_container(container) ==
    LET description_candidates == DescriptionCandidates(container.kids, 1)
        filtered_candidates ==
            SelectSeq(description_candidates,
                      LAMBDA text : \A w \in description_ui_words : ~Contains(Lower(text), w))
        fallback == find_elements(container.kids, dir_auto)
        \* the fallback loop has one try around it: a raise loses its candidates
        content_candidates ==
            IF \E i \in 1..Len(fallback) : fallback[i].err THEN <<>>
            ELSE AcceptedTexts(fallback, DescriptionFallbackAccepts)
    IN  IF filtered_candidates # <<>> THEN MaxByLen(filtered_candidates)
        ELSE IF description_candidates # <<>> THEN MaxByLen(description_candidates)
        ELSE IF content_candidates # <<>> THEN MaxByLen(content_candidates)
        ELSE DescriptionNotFound

image_selectors ==
    << {SelIn("data-testid=marketplace_pdp_images", "img")},
       {SelIn("data-testid=marketplace_pdp_carousel", "img")},
       {SelIn("data-testid=marketplace-pdp-image", "img")},
       {SelIn("class=x5yr21d", "img")},
       {SelIn("class=x1rg5ohu", "img")},
       {SelIn("class=x6ikm8r", "img")},
       {SelSub("img", "src", "scontent")},
       {SelSub("img", "alt", "product")},
       {Sel("img", {"data-visualcompletion=media-vc-image"})} >>

\* the images the two nested loops visit, selector by selector
RECURSIVE ImagesInOrder(_, _)
ImagesInOrder(kids, i) ==
    IF i > Len(image_selectors) THEN <<>>
    ELSE find_elements(kids, image_selectors[i]) \o ImagesInOrder(kids, i + 1)

IsNumber(s) == s # "" /\ \A i \in 1..Len(s) : IsDigit(Ch(s, i))

RECURSIVE ParseInt(_)
\* int(s) of a string of digits
ParseInt(s) ==
    IF s = "" THEN 0
    ELSE 10 * ParseInt(SubSeq(s, 1, Len(s) - 1)) + (Find(Digits, Ch(s, Len(s))) - 1)

\* img.find_elements(By.XPATH, "./ancestor::*[contains(@data-testid, 'carousel')
\*                               or contains(@data-testid, 'pdp_images')]") is not empty
carousel_parent(img) ==
    \E a \in img.anc : /\ StartsWith(a, "data-testid=")
                       /\ (Contains(a, "carousel") \/ Contains(a, "pdp_images"))

SeqHas(seq, v) == \E i \in 1..Len(seq) : seq[i] = v

RECURSIVE ImagesLoop_no_early_return(_, _, _)
\* the loops without the return inside them: a carousel image is collected
\* like any other
ImagesLoop_no_early_return(imgs, k, image_urls) ==
    IF k > Len(imgs)
    THEN IF image_urls # <<>> THEN <<image_urls[1]>> ELSE <<>>
    ELSE LET img == imgs[k]
             src == get_attribute(img, "src")
             width == get_attribute(img, "width")
         IN  IF img.err THEN ImagesLoop_no_early_return(imgs, k + 1, image_urls)
             ELSE IF ~(/\ src # "" /\ Contains(src, "scontent") /\ Len(src) > 20
                       /\ ~SeqHas(image_urls, src))
                  THEN ImagesLoop_no_early_return(imgs, k + 1, image_urls)
             ELSE IF width # "" /\ (~IsNumber(width) \/ ParseInt(width) < 50)
                  THEN ImagesLoop_no_early_return(imgs, k + 1, image_urls)
             ELSE ImagesLoop_no_early_return(imgs, k + 1, Append(image_urls, src))

\* the body of the loops of extract_images_from_container from image k on,
\* with image_urls as collected so far
RECURSIVE ImagesLoop(_, _, _)
ImagesLoop(imgs, k, image_urls) ==
    IF k > Len(imgs)
    THEN IF image_urls # <<>> THEN <<image_urls[1]>> ELSE <<>>
    ELSE LET img == imgs[k]
             src == get_attribute(img, "src")
             width == get_attribute(img, "width")
         IN  IF img.err THEN ImagesLoop(imgs, k + 1, image_urls)
             ELSE IF ~(/\ src # "" /\ Contains(src, "scontent") /\ Len(src) > 20
                       /\ ~SeqHas(image_urls, src))
                  THEN ImagesLoop(imgs, k + 1, image_urls)
             ELSE IF width # "" /\ (~IsNumber(width) \/ ParseInt(width) < 50)
                  THEN ImagesLoop(imgs, k + 1, image_urls)
             ELSE IF carousel_parent(img) THEN <<src>>
             ELSE ImagesLoop(imgs, k + 1, Append(image_urls, src))

extract_images_from_container(container) ==
    ImagesLoop(ImagesInOrder(container.kids, 1), 1, <<>>)

\* ------------------------------------------------------------------------
\* URL matcher
\* ------------------------------------------------------------------------

Lit(str) == [k |-> "lit", s |-> str]
Opt(str) == [k |-> "opt", s |-> str]
Plus(cls) == [k |-> "plus", s |-> cls]
PlusNot(cls) == [k |-> "plusnot", s |-> cls]
OptQuery == [k |-> "query", s |-> "?"]

AlnumClass == LowerLetters \o UpperLetters \o Digits
SlugClass == AlnumClass \o "_-"

Scheme == <<Lit("http"), Opt("s"), Lit("://"), Opt("www.")>>

FB_PATTERNS ==
    << Scheme \o <<Lit("facebook.com/marketplace/item/"), Plus(Digits)>>,
       Scheme \o <<Lit("facebook.com/marketplace/item.php?id="), Plus(Digits)>>,
       Scheme \o <<Lit("fb.com/marketplace/item/"), Plus(Digits)>>,
       Scheme \o <<Lit("facebook.com/share/"), Plus(AlnumClass)>>,
       Scheme \o <<Lit("facebook.com/share/"), Plus(AlnumClass), Opt("/"), OptQuery>>,
       Scheme \o <<Lit("facebook.com/"), PlusNot("/"), Lit("/posts/"), Plus(AlnumClass)>>,
       Scheme \o <<Lit("fb.watch/"), Plus(SlugClass), Opt("/")>>,
       Scheme \o <<Lit("fb.me/"), Plus(SlugClass)>>,
       <<Lit("http"), Opt("s"), Lit("://m.facebook.com/"), PlusNot(" ")>> >>

RECURSIVE RunLenNot(_, _, _)
RunLenNot(s, i, cls) ==
    IF i > Len(s) THEN 0
    ELSE IF ~Contains(cls, Ch(s, i)) THEN 1 + RunLenNot(s, i + 1, cls) ELSE 0

LitAt(s, i, str) == i + Len(str) - 1 <= Len(s) /\ SubSeq(s, i, i + Len(str) - 1) = str

\* The index after the match of tokens t.. of pat at position i of s, 0 when
\* there is none.  Every repetition is greedy; no pattern of the list needs
\* backtracking, because no token can match what the token before it stopped at.
RECURSIVE MatchEnd(_, _, _, _)
MatchEnd(s, i, pat, t) ==
    IF t > Len(pat) THEN i
    ELSE LET tok == pat[t]
         IN  CASE tok.k = "lit" ->
                    IF LitAt(s, i, tok.s) THEN MatchEnd(s, i + Len(tok.s), pat, t + 1) ELSE 0
               [] tok.k = "opt" ->
                    IF LitAt(s, i, tok.s) THEN MatchEnd(s, i + Len(tok.s), pat, t + 1)
                    ELSE MatchEnd(s, i, pat, t + 1)
               [] tok.k = "plus" ->
                    IF RunLen(s, i, tok.s) = 0 THEN 0
                    ELSE MatchEnd(s, i + RunLen(s, i, tok.s), pat, t + 1)
               [] tok.k = "plusnot" ->
                    IF RunLenNot(s, i, tok.s) = 0 THEN 0
                    ELSE MatchEnd(s, i + RunLenNot(s, i, tok.s), pat, t + 1)
               [] tok.k = "query" ->
                    IF LitAt(s, i, "?") THEN MatchEnd(s, Len(s) + 1, pat, t + 1)
                    ELSE MatchEnd(s, i, pat, t + 1)

\* re.search(pattern, content): group 0 of the leftmost match, "" for None
re_search(pat, content) ==
    LET hits == {i \in 1..Len(content) : MatchEnd(content, i, pat, 1) # 0}
    IN  IF hits = {} THEN ""
        ELSE LET i == CHOOSE i \in hits : \A j \in hits : i <= j
             IN  SubSeq(content, i, MatchEnd(content, i, pat, 1) - 1)

\* the loop over FB_PATTERNS of on_message: the first pattern that matches wins
match_fb_url(content) ==
    LET hits == {n \in 1..Len(FB_PATTERNS) : re_search(FB_PATTERNS[n], content) # ""}
    IN  IF hits = {} THEN ""
        ELSE re_search(FB_PATTERNS[CHOOSE n \in hits : \A m \in hits : n <= m], content)

\* ------------------------------------------------------------------------
\* Records returned by the scrape, and the presentation of on_message
\* ------------------------------------------------------------------------

\* None for image_url; a found URL is longer than 20 characters
None == ""

\* the record returned when setup_webdriver gave no driver
browser_error_record ==
    [title |-> "Error setting up web browser", price |-> "Unknown", location |-> "Unknown",
     description |-> "Could not initialize the browser to fetch content details.",
     image_url |-> None, success |-> FALSE]

\* the record returned by the except clause for exception text e
exception_record(e) ==
    [title |-> "Error fetching listing", price |-> "Unknown", location |-> "Unknown",
     description |-> "Could not retrieve listing details. Error: " \o e,
     image_url |-> None, success |-> FALSE]

\* post-processing validation of the title
validate_title(title) == IF Count(title, "$") > 1 THEN "Facebook Marketplace Listing" ELSE title

\* the record returned on success
success_record(title, price, location, description, image_urls) ==
    [title |-> validate_title(title), price |-> price, location |-> location,
     description |-> description,
     image_url |-> IF image_urls # <<>> THEN image_urls[1] ELSE None,
     success |-> TRUE]

retry_needed_any_url(is_marketplace, price, location, image_urls) ==
    price = PriceNotFound \/ location = LocationNotFound \/ image_urls = <<>>

\* the retry condition of the scrape
retry_needed(is_marketplace, price, location, image_urls) ==
    is_marketplace /\ (price = PriceNotFound \/ location = LocationNotFound \/ image_urls = <<>>)

\* s.replace(sub, "")
RECURSIVE Remove(_, _)
Remove(s, sub) ==
    IF ~Contains(s, sub) THEN s
    ELSE Split1(s, sub)[1] \o Remove(Split1(s, sub)[2], sub)

present_title_any_url(title, fb_url) ==
    IF title = TitleNotFound \/ Contains(title, "Browse all")
    THEN "Facebook Marketplace Listing"
    ELSE title

present_title(title, fb_url) ==
    IF title = TitleNotFound \/ Contains(title, "Browse all")
    THEN IF Contains(fb_url, "marketplace") THEN "Facebook Marketplace Listing"
         ELSE "Facebook Post"
    ELSE title

\* "Better price formatting"
format_price(price) == IF price = PriceNotFound THEN "Not listed" ELSE price

validate_price_unchecked(price) == price

\* "Final validation to ensure we're not displaying similar listings"
validate_price(price) == IF Count(price, "$") > 1 THEN "Not listed" ELSE price

present_price(price) == validate_price(format_price(price))

present_location(location) ==
    IF location = LocationNotFound THEN "Not specified"
    ELSE IF Contains(location, "Location")
         THEN Strip(Remove(Remove(location, "Location"), ":"))
    ELSE location

description_phrases ==
    <<"Browse all", "Categories", "Nearby Cities", "Create new listing", "Your account">>

RECURSIVE KeepLongerSide(_, _)
\* for phrase in [...]: split at the phrase and keep the longer side
KeepLongerSide(description, i) ==
    IF i > Len(description_phrases) THEN description
    ELSE LET parts == Split1(description, description_phrases[i])
         IN  KeepLongerSide(
                 IF Len(parts) > 1
                 THEN IF Len(parts[1]) > Len(parts[2]) THEN Strip(parts[1])
                      ELSE Strip(parts[2])
                 ELSE description,
                 i + 1)

MaxFieldLen == 1024

present_description(description) ==
    LET cleaned ==
            IF description = DescriptionNotFound THEN "No description available"
            ELSE LET kept == KeepLongerSide(description, 1)
                 IN  IF Count(kept, "$") > 2 THEN "Description not available" ELSE kept
    IN  IF Len(cleaned) > MaxFieldLen
        THEN SubSeq(cleaned, 1, MaxFieldLen - 3) \o "..."
        ELSE cleaned

Field(name, value) == [name |-> name, value |-> value]

\* the embed of the success branch of on_message
success_embed(listing_details, fb_url, display_name) ==
    LET title == present_title(listing_details.title, fb_url)
        price == present_price(listing_details.price)
        location == present_location(listing_details.location)
        description == present_description(listing_details.description)
        is_marketplace ==
            Contains(fb_url, "marketplace") \/ (price # "Not listed" /\ price # "N/A")
        meaningful == description # ""
                      /\ description \notin {"No description available", DescriptionNotFound}
        post_text == /\ Len(description) > 50
                     /\ \A w \in {"browse all", "create new", "categories"} :
                            ~Contains(Lower(description), w)
    IN  [title |-> title, url |-> fb_url, color |-> "0x1877F2",
         image |-> listing_details.image_url,
         description |-> IF ~is_marketplace /\ post_text THEN description ELSE "",
         fields |-> IF is_marketplace
                    THEN <<Field("Price", price), Field("Location", location)>>
                         \o (IF meaningful THEN <<Field("Description", description)>> ELSE <<>>)
                    ELSE <<>>,
         footer |-> "Requested by " \o display_name \o
                    (IF is_marketplace THEN " | Marketplace Listing" ELSE " | Facebook Post")]

error_embed_from_record(listing_details, fb_url) ==
    [title |-> "Error Fetching Details", url |-> "", color |-> "0xFF0000", image |-> None,
     description |-> listing_details.description,
     fields |-> <<Field("Link", fb_url)>>, footer |-> ""]

\* the embed of the failure branch of on_message
error_embed(listing_details, fb_url) ==
    [title |-> "Error Fetching Details", url |-> "", color |-> "0xFF0000", image |-> None,
     description |-> "I couldn't retrieve the details from this Facebook link.",
     fields |-> <<Field("Link", fb_url)>>, footer |-> ""]

NoEmbed ==
    [title |-> "", url |-> "", color |-> "", image |-> None, description |-> "",
     fields |-> <<>>, footer |-> ""]

\* ------------------------------------------------------------------------
\* The pages the site serves and the messages the channel delivers
\* ------------------------------------------------------------------------

E_title == Elem("h1", {}, {}, "Vintage oak desk")
E_title_multi == Elem("h1", {}, {}, "iPhone 13 Pro - $600 - $650 (bundle)")
E_heading_other == Elem("span", {"role=heading"}, {}, "Marketplace deals")
E_price == Elem("span", {"class=x193iq5w"}, {}, "$600")
E_price_late == Elem("span", {"class=x193iq5w"}, {}, "$450")
E_price_range == [Elem("span", {"class=x193iq5w"}, {}, "$5 - $9") EXCEPT !.parentErr = TRUE]
E_tile_a == [Elem("span", {}, {"class=x1lliihq"}, "$40") EXCEPT !.parent = "$40 $55 $60"]
E_tile_b == [Elem("span", {}, {"class=x1lliihq"}, "$55") EXCEPT !.parent = "$40 $55 $60"]
E_location == Elem("div", {"class=x1xmf6yo"}, {}, "Location: Austin, TX Nearby cities")
E_location_late == Elem("div", {"class=x1xmf6yo"}, {}, "Location: Dallas, TX")
E_desc ==
    Elem("div", {"data-testid=marketplace_pdp_description"}, {},
         "Solid oak desk in good condition, pickup only")
E_desc_unavailable ==
    Elem("div", {"data-testid=marketplace_pdp_description"}, {}, "Description not available")
E_img ==
    Elem("img", {"src=https://scontent.xx.fbcdn.net/a.jpg", "width=600"}, {"class=x5yr21d"}, "")
E_img_carousel ==
    Elem("img", {"src=https://scontent.xx.fbcdn.net/b.jpg"},
         {"data-testid=marketplace_pdp_carousel"}, "")
E_img_gallery ==
    Elem("img", {"src=https://scontent.xx.fbcdn.net/c.jpg"}, {"data-testid=media_carousel"}, "")
E_img_plain == Elem("img", {"src=https://scontent.xx.fbcdn.net/d.jpg", "width=800"}, {}, "")
E_icon == Elem("img", {"src=https://scontent.xx.fbcdn.net/i.png", "width=16"}, {}, "")
E_stale == [Elem("div", {"dir=auto"}, {}, "") EXCEPT !.err = TRUE]

N_main_full == Node("main", "div", {"role=main"}, <<E_title, E_price, E_location, E_desc, E_img>>)
N_main_early == Node("main_early", "div", {"role=main"}, <<E_title, E_price, E_icon>>)
N_main_late ==
    Node("main_late", "div", {"role=main"},
         <<E_title, E_price_late, E_location_late, E_desc, E_icon, E_img_carousel>>)
N_main_multi ==
    Node("main_multi", "div", {"role=main"}, <<E_title_multi, E_price, E_location, E_img>>)
N_main_multi_other ==
    Node("main_multi_other", "div", {"role=main"},
         <<E_title_multi, E_heading_other, E_price, E_location, E_img>>)
N_main_range ==
    Node("main_range", "div", {"role=main"}, <<E_title, E_price_range, E_location, E_img>>)
N_similar ==
    Node("similar", "div", {"class=x78zum5", "class=xdt5ytf"}, <<E_tile_a, E_tile_b, E_stale>>)
N_stale == [Node("stale", "div", {"role=main"}, <<>>) EXCEPT !.err = TRUE]
N_main_gallery ==
    Node("main_gallery", "div", {"role=main"},
         <<E_title, E_price, E_location, E_desc, E_icon, E_img, E_img_gallery>>)
N_main_album ==
    Node("main_album", "div", {"role=main"},
         <<E_title, E_price, E_location, E_desc, E_img_plain, E_img>>)
N_main_unavailable ==
    Node("main_unavailable", "div", {"role=main"},
         <<E_title, E_price, E_location, E_desc_unavailable, E_img>>)
N_panel == Node("panel", "div", {"class=x78zum5", "class=xdt5ytf"}, <<E_title, E_price_late>>)

RECURSIVE AllKids(_)
AllKids(nodes) == IF nodes = <<>> THEN <<>> ELSE Head(nodes).kids \o AllKids(Tail(nodes))

\* A DOM snapshot: its candidate containers in document order, its body (which
\* holds every element), and whether the body lookup raises.
Page(nodes, bodyErr) ==
    [nodes |-> nodes, body |-> Node("body", "body", {}, AllKids(nodes)), bodyErr |-> bodyErr]

SiteNames ==
    {"full", "lazy", "multi", "multi_other", "range", "tiles", "gallery", "album",
     "unavailable",
     "stale", "stale_later", "broken"}

\* the snapshots a site goes through as lazy content loads
Stages(site) ==
    CASE site = "full" -> <<Page(<<N_main_full, N_similar>>, FALSE)>>
      [] site = "lazy" -> <<Page(<<N_main_early>>, FALSE), Page(<<N_main_late>>, FALSE)>>
      [] site = "multi" -> <<Page(<<N_main_multi>>, FALSE)>>
      [] site = "multi_other" -> <<Page(<<N_main_multi_other>>, FALSE)>>
      [] site = "range" -> <<Page(<<N_main_range>>, FALSE)>>
      [] site = "tiles" -> <<Page(<<N_similar>>, FALSE)>>
      [] site = "gallery" -> <<Page(<<N_main_gallery>>, FALSE)>>
      [] site = "album" -> <<Page(<<N_main_album>>, FALSE)>>
      [] site = "unavailable" -> <<Page(<<N_main_unavailable>>, FALSE)>>
      [] site = "stale" -> <<Page(<<N_stale, N_main_full>>, FALSE)>>
      [] site = "stale_later" -> <<Page(<<N_stale, N_main_full, N_panel>>, FALSE)>>
      [] site = "broken" -> <<Page(<<N_similar>>, TRUE)>>

CHANNEL_ID == 1001
OtherChannel == CHANNEL_ID + 1

Message(content, channel_id, from_bot) ==
    [content |-> content, channel |-> channel_id, from_bot |-> from_bot,
     display_name |-> "ann"]

NoMessage == Message("", 0, FALSE)

M_item == Message("check this out https://www.facebook.com/marketplace/item/123456789 thanks",
                  CHANNEL_ID, FALSE)
M_post == Message("https://www.facebook.com/jane.doe/posts/abc123", CHANNEL_ID, FALSE)
M_mobile == Message("http://m.facebook.com/marketplace/item/42?ref=share", CHANNEL_ID, FALSE)
M_other_url == Message("see https://example.com/marketplace/item/1", CHANNEL_ID, FALSE)
M_own == Message("https://www.facebook.com/marketplace/item/7", CHANNEL_ID, TRUE)
M_elsewhere == Message("https://www.facebook.com/marketplace/item/8", OtherChannel, FALSE)

Messages == {M_item, M_post, M_mobile, M_other_url, M_own, M_elsewhere}

\* the number of on_message invocations that may be in flight together
MaxHandlers == 2
Handlers == 1..MaxHandlers

\* ------------------------------------------------------------------------
\* State
\* ------------------------------------------------------------------------

VARIABLES
    inbox,      \* inbox[p]: the message invocation p of on_message was given
    web,        \* the sites a URL may resolve to
    pc,         \* pc[p]: where invocation p stands
    loc,        \* loc[p]: the local variables of invocation p and of its scrape
    sessions,   \* sessions[d]: the browser session of handle d
    channel     \* channel[p]: the interim notice and the reply of invocation p

vars == <<inbox, web, pc, loc, sessions, channel>>

NoRecord ==
    [title |-> "", price |-> "", location |-> "", description |-> "",
     image_url |-> None, success |-> FALSE]

NoRef == [name |-> "none", acq |-> 0]

NoFirst == [set |-> FALSE, title |-> "", price |-> "", location |-> "",
            description |-> "", image_urls |-> <<>>]

NoSession ==
    [state |-> "none", owner |-> 0, quits |-> 0, site |-> "", stage |-> 0, users |-> {}]

InitLocals ==
    [fb_url |-> "", driver |-> 0, is_marketplace |-> FALSE, wait_timeout |-> FALSE,
     main_container |-> NoRef, title |-> "", price |-> "", location |-> "",
     description |-> "", image_urls |-> <<>>,
     first |-> NoFirst, retries |-> 0, calls |-> {},
     ret |-> NoRecord, listing_details |-> NoRecord, embed |-> NoEmbed]

InitCommon ==
    /\ pc = [p \in Handlers |-> "start"]
    /\ loc = [p \in Handlers |-> InitLocals]
    /\ sessions = [d \in Handlers |-> NoSession]
    /\ channel = [p \in Handlers |-> [interim |-> "none", reply |-> NoEmbed]]

\* one message arrives and is handled alone, on any site
Init ==
    /\ inbox \in {f \in [Handlers -> Messages \cup {NoMessage}] :
                    f[1] # NoMessage /\ \A p \in Handlers \ {1} : f[p] = NoMessage}
    /\ web = SiteNames
    /\ InitCommon

\* matching messages arrive together, one per invocation (listing links and
\* post links in turn), and are handled concurrently
InitConcurrent ==
    /\ inbox = [p \in Handlers |-> IF p % 2 = 1 THEN M_item ELSE M_post]
    /\ web = {"lazy"}
    /\ InitCommon

\* ------------------------------------------------------------------------
\* Operations on browser sessions
\* ------------------------------------------------------------------------

FreshSession(p) ==
    [state |-> "live", owner |-> p, quits |-> 0, site |-> "", stage |-> 0, users |-> {}]

\* a driver kept at module level: a session that is live is used again
setup_shared_webdriver(ss, p) ==
    IF \E d \in DOMAIN ss : ss[d].state = "live"
    THEN [sessions |-> ss, driver |-> CHOOSE d \in DOMAIN ss : ss[d].state = "live"]
    ELSE [sessions |-> [ss EXCEPT ![p] = FreshSession(p)], driver |-> p]

\* setup_webdriver when Chrome starts: a new session.  Its handle is named
\* after the invocation that starts it (an invocation starts at most one).
setup_webdriver(ss, p) ==
    [sessions |-> [ss EXCEPT ![p] = FreshSession(p)], driver |-> p]

\* driver.get(url) by p: the session shows the first snapshot of the site
driver_get(ss, d, p, site) ==
    [ss EXCEPT ![d].site = site, ![d].stage = 1, ![d].users = @ \cup {p}]

\* driver.execute_script(scroll) by p; lazy content may or may not have loaded
execute_scroll(ss, d, p, loaded) ==
    [ss EXCEPT ![d].users = @ \cup {p},
               ![d].stage = IF loaded /\ @ < Len(Stages(ss[d].site)) THEN @ + 1 ELSE @]

\* a query of the DOM through driver d by p
driver_query(ss, d, p) == [ss EXCEPT ![d].users = @ \cup {p}]

\* driver.quit() by p
driver_quit(ss, d, p) ==
    [ss EXCEPT ![d].state = "quit", ![d].quits = @ + 1, ![d].users = @ \cup {p}]

CurrentPage(ss, d) == Stages(ss[d].site)[ss[d].stage]

\* The element a reference obtained earlier denotes in the DOM as it is now:
\* the node of that name, or, once the node has gone, a stale element, every
\* query on which raises, so that each extractor gives its sentinel.
Resolve(page, name) ==
    LET all == page.nodes \o <<page.body>>
        have == {i \in 1..Len(all) : all[i].name = name}
    IN  IF have = {} THEN NoElement ELSE all[CHOOSE i \in have : TRUE]

\* EC.presence_of_element_located("h1, [role='heading']") never holds
wait_times_out(page) ==
    Len(find_elements(page.body.kids, {Sel("h1", {}), Sel("", {"role=heading"})})) = 0

\* ------------------------------------------------------------------------
\* on_message and scrape_facebook_marketplace, step by step
\* ------------------------------------------------------------------------

Goto(p, label) == pc' = [pc EXCEPT ![p] = label]

\* on_message up to the interim notice: the author and channel filters, the
\* URL match, and channel.send of the processing message
OnMessage(p) ==
    /\ pc[p] = "start"
    /\ inbox[p] # NoMessage
    /\ LET message == inbox[p]
           fb_url == match_fb_url(message.content)
       IN  IF message.from_bot \/ message.channel # CHANNEL_ID \/ fb_url = ""
           THEN /\ Goto(p, "done")
                /\ UNCHANGED <<loc, channel>>
           ELSE /\ Goto(p, "scrape")
                /\ loc' = [loc EXCEPT ![p].fb_url = fb_url]
                /\ channel' = [channel EXCEPT ![p].interim = "posted"]
    /\ UNCHANGED <<inbox, web, sessions>>

\* an except clause whose return skips the teardown
ExceptionExitWithoutFinally(p, locals, e) ==
    /\ loc' = [loc EXCEPT ![p] = [locals EXCEPT !.listing_details = exception_record(e)]]
    /\ Goto(p, "reply")

\* leaving the try block through the except clause: the error record is the
\* pending return value while the finally clause runs
ExceptionExit(p, locals, e) ==
    /\ loc' = [loc EXCEPT ![p] = [locals EXCEPT !.ret = exception_record(e)]]
    /\ Goto(p, "finally")

\* leaving the try block through the return of the success record
ReturnExit(p, locals) ==
    /\ loc' = [loc EXCEPT ![p] =
                 [locals EXCEPT !.ret = success_record(locals.title, locals.price,
                                                       locals.location, locals.description,
                                                       locals.image_urls)]]
    /\ Goto(p, "finally")

\* scrape_facebook_marketplace up to the settle sleep: setup_webdriver, the
\* no-driver return, driver.get and the bounded wait for a heading
StartScrape(p) ==
    /\ pc[p] = "scrape"
    /\ \E outcome \in {"no_browser", "navigation_raises", "loaded"}, site \in web :
         IF outcome = "no_browser"
         THEN /\ loc' = [loc EXCEPT ![p].listing_details = browser_error_record]
              /\ Goto(p, "reply")
              /\ UNCHANGED sessions
         ELSE LET made == setup_webdriver(sessions, p)
                  d == made.driver
                  locals == [loc[p] EXCEPT !.driver = d,
                                           !.is_marketplace = Contains(loc[p].fb_url, "marketplace")]
              IN  /\ sessions' = driver_get(made.sessions, d, p, site)
                  /\ IF outcome = "navigation_raises"
                     THEN ExceptionExit(p, locals, "navigation failed")
                     ELSE /\ loc' = [loc EXCEPT ![p] =
                                       [locals EXCEPT !.wait_timeout =
                                            wait_times_out(CurrentPage(sessions', d))]]
                          /\ Goto(p, "settle")
    /\ UNCHANGED <<inbox, web, channel>>

\* a sleep ends and scroll_and_wait runs a scroll script
Scroll(p, from, to) ==
    /\ pc[p] = from
    /\ \E loaded \in BOOLEAN :
         sessions' = execute_scroll(sessions, loc[p].driver, p, loaded)
    /\ Goto(p, to)
    /\ UNCHANGED <<inbox, web, loc, channel>>

\* asyncio.sleep(10) ends; scroll to the bottom
Settle(p) == Scroll(p, "settle", "scroll")

\* the pause of scroll_and_wait ends; scroll back to 80%
ScrollBack(p) == Scroll(p, "scroll", "extract")

\* the local variables after the extractors of the first pass ran on container c
first_pass(locals, c) ==
    LET mkt == locals.is_marketplace
    IN  [locals EXCEPT
           !.main_container = [name |-> c.name, acq |-> 1],
           !.title = extract_title_from_container(c),
           !.price = IF mkt THEN extract_price_from_container(c) ELSE "N/A",
           !.location = IF mkt THEN extract_location_from_container(c) ELSE "N/A",
           !.description = extract_description_from_container(c),
           !.image_urls = extract_images_from_container(c),
           !.calls = {<<f, 1, 1>> : f \in {"title", "description", "image"}
                                         \cup (IF mkt THEN {"price", "location"} ELSE {})}]

\* the values the fields hold when the first pass ends
Snapshot(locals) ==
    [set |-> TRUE, title |-> locals.title, price |-> locals.price,
     location |-> locals.location, description |-> locals.description,
     image_urls |-> locals.image_urls]

\* the first pass: locate the container, run the extractors, decide on a retry
FirstPass(p) ==
    /\ pc[p] = "extract"
    /\ sessions' = driver_query(sessions, loc[p].driver, p)
    /\ \E found \in {find_main_listing_container(CurrentPage(sessions, loc[p].driver))} :
         IF found.raised THEN ExceptionExit(p, loc[p], "no such element")
         ELSE \E locals \in {first_pass(loc[p], found.el)} :
                \E after \in {[locals EXCEPT !.first = Snapshot(locals)]} :
                  IF retry_needed(after.is_marketplace, after.price, after.location,
                                  after.image_urls)
                  THEN /\ loc' = [loc EXCEPT ![p] = [after EXCEPT !.retries = @ + 1]]
                       /\ Goto(p, "retry_settle")
                  ELSE ReturnExit(p, after)
    /\ UNCHANGED <<inbox, web, channel>>

\* asyncio.sleep(5) of the retry block ends; scroll to the bottom
RetrySettle(p) == Scroll(p, "retry_settle", "retry_scroll")

\* the pause of the retry's scroll_and_wait ends; scroll back
RetryScroll(p) == Scroll(p, "retry_scroll", "retry_extract")

\* the container the retry's extractors are given
retry_container(first_ref, relocated) == relocated

reextract_always(value, sentinel) == TRUE

\* whether the retry runs the extractor of a field
reextract(value, sentinel) == value = sentinel

\* a retry block without the title's re-extraction
retry_fields_without_title(locals) ==
    {f \in {"price", "location", "image"} :
       CASE f = "price" -> reextract(locals.price, PriceNotFound)
         [] f = "location" -> reextract(locals.location, LocationNotFound)
         [] f = "image" -> reextract(locals.image_urls, <<>>)}

\* the fields whose extractor the retry runs
retry_fields(locals) ==
    {f \in {"title", "price", "location", "image"} :
       CASE f = "title" -> reextract(locals.title, TitleNotFound)
         [] f = "price" -> reextract(locals.price, PriceNotFound)
         [] f = "location" -> reextract(locals.location, LocationNotFound)
         [] f = "image" -> reextract(locals.image_urls, <<>>)}

\* the local variables after the retry re-located the container (relocated)
\* and ran the extractors of the fields in again on container c, held by ref
retry_pass(locals, relocated, ref, c, again) ==
    [locals EXCEPT
       !.main_container = relocated,
       !.title = IF "title" \in again THEN extract_title_from_container(c) ELSE @,
       !.price = IF "price" \in again THEN extract_price_from_container(c) ELSE @,
       !.location = IF "location" \in again THEN extract_location_from_container(c) ELSE @,
       !.image_urls = IF "image" \in again THEN extract_images_from_container(c) ELSE @,
       !.calls = @ \cup {<<f, 2, ref.acq>> : f \in again}]

\* the retry pass: re-locate the container, re-extract what is missing
RetryPass(p) ==
    /\ pc[p] = "retry_extract"
    /\ sessions' = driver_query(sessions, loc[p].driver, p)
    /\ \E found \in {find_main_listing_container(CurrentPage(sessions, loc[p].driver))} :
         IF found.raised THEN ExceptionExit(p, loc[p], "no such element")
         ELSE \E relocated \in {[name |-> found.el.name,
                                  acq |-> loc[p].main_container.acq + 1]} :
                \E ref \in {retry_container(loc[p].main_container, relocated)} :
                  \E c \in {Resolve(CurrentPage(sessions, loc[p].driver), ref.name)} :
                    \E locals \in {retry_pass(loc[p], relocated, ref, c,
                                               retry_fields(loc[p]))} :
                      ReturnExit(p, locals)
    /\ UNCHANGED <<inbox, web, channel>>

\* the finally clause: driver.quit(), which may itself raise; if it does, the
\* exception replaces the pending return value and leaves on_message
Quit(p) ==
    /\ pc[p] = "finally"
    /\ sessions' = driver_quit(sessions, loc[p].driver, p)
    /\ \E quit_raises \in BOOLEAN :
         IF quit_raises
         THEN /\ Goto(p, "raised")
              /\ UNCHANGED loc
         ELSE /\ Goto(p, "reply")
              /\ loc' = [loc EXCEPT ![p].listing_details = loc[p].ret]
    /\ UNCHANGED <<inbox, web, channel>>

\* on_message after the scrape: build the embed, delete the interim notice
Reply(p) ==
    /\ pc[p] = "reply"
    /\ loc' = [loc EXCEPT ![p].embed =
                 IF loc[p].listing_details.success
                 THEN success_embed(loc[p].listing_details, loc[p].fb_url,
                                    inbox[p].display_name)
                 ELSE error_embed(loc[p].listing_details, loc[p].fb_url)]
    /\ channel' = [channel EXCEPT ![p].interim = "deleted"]
    /\ Goto(p, "send")
    /\ UNCHANGED <<inbox, web, sessions>>

\* channel.send(embed=embed)
SendReply(p) ==
    /\ pc[p] = "send"
    /\ channel' = [channel EXCEPT ![p].reply = loc[p].embed]
    /\ Goto(p, "done")
    /\ UNCHANGED <<inbox, web, loc, sessions>>

Next ==
    \E p \in Handlers :
        \/ OnMessage(p)
        \/ StartScrape(p)
        \/ Settle(p)
        \/ ScrollBack(p)
        \/ FirstPass(p)
        \/ RetrySettle(p)
        \/ RetryScroll(p)
        \/ RetryPass(p)
        \/ Quit(p)
        \/ Reply(p)
        \/ SendReply(p)

Spec == Init /\ [][Next]_vars

SpecConcurrent == InitConcurrent /\ [][Next]_vars
\* ------------------------------------------------------------------------
\* Properties
\* ------------------------------------------------------------------------

\* where an invocation stands while its scrape holds a session
Scraping ==
    {"settle", "scroll", "extract", "retry_settle", "retry_scroll", "retry_extract", "finally"}

\* where an invocation stands once its scrape has ended
ScrapeEnded == {"reply", "send", "done", "raised"}

Matched(p) == loc[p].fb_url # ""

Replied(p) == channel[p].reply # NoEmbed

\* C1: a session a scrape started is live, and not yet quit, while that scrape
\* runs; once the scrape has ended, by return, by the except clause or by an
\* exception, it has been quit exactly once; no session is live without a
\* running scrape that holds it.
C1_SessionQuitExactlyOnce ==
    /\ \A p \in Handlers :
         LET d == loc[p].driver
         IN  d # 0 =>
               /\ pc[p] \in Scraping \cup ScrapeEnded
               /\ pc[p] \in Scraping \ {"finally"} =>
                    sessions[d].state = "live" /\ sessions[d].quits = 0
               /\ pc[p] \in ScrapeEnded =>
                    sessions[d].state = "quit" /\ sessions[d].quits = 1
    /\ \A d \in Handlers :
         /\ sessions[d].quits <= 1
         /\ sessions[d].state = "live" =>
              \E p \in Handlers : loc[p].driver = d /\ pc[p] \in Scraping

\* a scrape that left through the except clause returned, its session quit once
C1_Witness ==
    \E p \in Handlers :
        /\ pc[p] = "reply" /\ loc[p].driver # 0
        /\ ~loc[p].listing_details.success
        /\ sessions[loc[p].driver].state = "quit"
        /\ sessions[loc[p].driver].quits = 1

\* C2: for a matched message the interim notice is posted before the scrape
\* starts, no final reply exists while the notice does, and no invocation ends
\* with the notice left in the channel.
C2_InterimDeletedBeforeReply ==
    \A p \in Handlers :
        /\ (Matched(p) /\ pc[p] # "start") => channel[p].interim # "none"
        /\ Replied(p) => channel[p].interim = "deleted"
        /\ (Matched(p) /\ pc[p] \in {"done", "raised"}) => channel[p].interim = "deleted"

\* C3: the scrape never ends by an exception: whenever it has ended, on_message
\* holds a record, and a failure record carries an explanatory message.
C3_ScrapeNeverRaises ==
    \A p \in Handlers :
        /\ pc[p] # "raised"
        /\ (Matched(p) /\ pc[p] \in ScrapeEnded) =>
             /\ loc[p].listing_details # NoRecord
             /\ ~loc[p].listing_details.success => loc[p].listing_details.description # ""

\* C4: a failure record has no image, and the reply sent for it is the fixed
\* error embed with the link as its only field, whatever the record holds.
C4_FailureCarriesNoListing ==
    \A p \in Handlers :
        /\ (pc[p] \in {"reply", "send", "done"} /\ ~loc[p].listing_details.success) =>
             loc[p].listing_details.image_url = None
        /\ (Replied(p) /\ ~loc[p].listing_details.success) =>
             channel[p].reply =
                 [title |-> "Error Fetching Details", url |-> "", color |-> "0xFF0000",
                  image |-> None,
                  description |-> "I couldn't retrieve the details from this Facebook link.",
                  fields |-> <<[name |-> "Link", value |-> loc[p].fb_url]>>, footer |-> ""]

\* the error reply for a record of the except clause has been sent
C4_Witness ==
    \E p \in Handlers :
        /\ Replied(p) /\ loc[p].driver # 0
        /\ ~loc[p].listing_details.success
        /\ loc[p].listing_details.title = "Error fetching listing"

\* the container invocation p holds, in the DOM it was located in
Located(p) ==
    Resolve(CurrentPage(sessions, loc[p].driver), loc[p].main_container.name)

\* the candidates of the page of p's session: every node some container
\* selector matches
Candidates(p) ==
    LET nodes == CurrentPage(sessions, loc[p].driver).nodes
    IN  {nodes[i] : i \in {j \in 1..Len(nodes) :
                             \E n \in 1..Len(container_selectors) :
                                \E sel \in container_selectors[n] : Matches(sel, nodes[j])}}

HasBoth(node) ==
    /\ \E i \in 1..Len(node.kids) :
          \/ node.kids[i].tag = "h1"
          \/ "role=heading" \in node.kids[i].attrs
          \/ node.kids[i].tag = "span" /\ "class=x193iq5w" \in node.kids[i].attrs
    /\ \E i \in 1..Len(node.kids) : Count(node.kids[i].own, "$") > 0

\* the container p holds was located in the DOM its session shows now
JustLocated(p) ==
    \/ pc[p] = "retry_settle"
    \/ pc[p] = "finally" /\ loc[p].ret.success

\* C5: the locator returns an element without a heading or without a currency
\* text only as the body fallback, and returns the body only when no candidate
\* of any selector has both.
C5_BodyOnlyWithoutCandidates ==
    \A p \in Handlers :
        JustLocated(p) =>
            /\ ~HasBoth(Located(p)) => loc[p].main_container.name = "body"
            /\ loc[p].main_container.name = "body" =>
                 \A node \in Candidates(p) : ~HasBoth(node)

\* C6: the retry block runs at most once, and it runs exactly when the URL
\* holds "marketplace" and the first pass left price or location not found or
\* found no image.
C6_RetryOnceWhenMissing ==
    \A p \in Handlers :
        /\ loc[p].retries <= 1
        /\ pc[p] \in {"retry_settle", "retry_scroll", "retry_extract"} => loc[p].retries = 1
        /\ ~loc[p].first.set => loc[p].retries = 0
        /\ loc[p].first.set =>
             (loc[p].retries = 1 <=>
                /\ Contains(loc[p].fb_url, "marketplace")
                /\ \/ loc[p].first.price = "Price not found"
                   \/ loc[p].first.location = "Location not found"
                   \/ loc[p].first.image_urls = <<>>)

\* a scrape that retried has run to its reply
C6_Witness ==
    \E p \in Handlers :
        /\ pc[p] = "done" /\ loc[p].retries = 1
        /\ loc[p].listing_details.success
        /\ loc[p].first.price # "Price not found"
        /\ loc[p].first.location = "Location not found"

PriceFields(embed) == {i \in 1..Len(embed.fields) : embed.fields[i].name = "Price"}

\* C7: the price of every success reply holds at most one '$', and a scraped
\* price with more than one is presented as "Not listed".
C7_PresentedPriceOneMarker ==
    \A p \in Handlers :
        (Replied(p) /\ loc[p].listing_details.success) =>
            /\ \A i \in PriceFields(channel[p].reply) :
                 Count(channel[p].reply.fields[i].value, "$") <= 1
            /\ Count(loc[p].listing_details.price, "$") > 1 =>
                 /\ PriceFields(channel[p].reply) # {}
                 /\ \A i \in PriceFields(channel[p].reply) :
                      channel[p].reply.fields[i].value = "Not listed"

\* a success reply for a scraped price with two markers has been sent
C7_Witness ==
    \E p \in Handlers :
        /\ Replied(p) /\ loc[p].listing_details.success
        /\ Count(loc[p].listing_details.price, "$") > 1

\* the text of the first heading (h1 or role=heading) of a container
HeadingText(node) ==
    LET hs == find_elements(node.kids, {Sel("h1", {}), Sel("", {"role=heading"})})
    IN  IF hs = <<>> THEN "" ELSE Strip(hs[1].text)

\* C8 as stated: whenever the heading of the located container holds more than
\* one '$', the presented title is "Facebook Marketplace Listing", for every
\* URL shape; no presented title holds more than one '$'.
C8_MultiMarkerTitleBecomesListing ==
    \A p \in Handlers :
        (Replied(p) /\ loc[p].listing_details.success) =>
            /\ Count(channel[p].reply.title, "$") <= 1
            /\ Count(HeadingText(Located(p)), "$") > 1 =>
                 channel[p].reply.title = "Facebook Marketplace Listing"

\* C8 as amended: a heading with more than one '$' is never the presented
\* title; when the extractor accepts no title, the presented title is
\* "Facebook Marketplace Listing" for a URL holding "marketplace" and
\* "Facebook Post" otherwise; no presented title holds more than one '$'.
C8_MultiMarkerTitleNeverPresented ==
    \A p \in Handlers :
        (Replied(p) /\ loc[p].listing_details.success) =>
            /\ Count(channel[p].reply.title, "$") <= 1
            /\ Count(HeadingText(Located(p)), "$") > 1 =>
                 channel[p].reply.title # HeadingText(Located(p))
            /\ loc[p].listing_details.title = "Title not found" =>
                 channel[p].reply.title =
                     IF Contains(loc[p].fb_url, "marketplace")
                     THEN "Facebook Marketplace Listing" ELSE "Facebook Post"

\* a post link whose page has a heading with two markers got its reply
C8_Witness ==
    \E p \in Handlers :
        /\ Replied(p) /\ loc[p].listing_details.success
        /\ ~Contains(loc[p].fb_url, "marketplace")
        /\ Count(HeadingText(Located(p)), "$") > 1
        /\ channel[p].reply.title = "Facebook Post"

\* every operation on a session was made by the invocation that started it,
\* and no two invocations hold the same session
OwnSessionsOnly ==
    /\ \A d \in Handlers : sessions[d].state # "none" => sessions[d].users \subseteq {sessions[d].owner}
    /\ \A p, q \in Handlers : (p # q /\ loc[p].driver # 0) => loc[p].driver # loc[q].driver
    /\ \A p \in Handlers : loc[p].driver # 0 => sessions[loc[p].driver].owner = p

\* a step of another invocation leaves p's locals, p's messages in the channel
\* and p's session as they are
NoInterference ==
    \A p \in Handlers :
        pc'[p] = pc[p] =>
            /\ loc'[p] = loc[p]
            /\ channel'[p] = channel[p]
            /\ loc[p].driver # 0 => sessions'[loc[p].driver] = sessions[loc[p].driver]

\* C9: with invocations interleaving at every step, each scrape has a session
\* of its own, every operation on a session is made by the scrape that started
\* it, and no step of one invocation changes what another reads or produces.
C9_HandlersIsolated == [](OwnSessionsOnly) /\ [][NoInterference]_vars

\* two scrapes hold live sessions at once
C9_Witness ==
    \E p, q \in Handlers :
        /\ p # q
        /\ pc[p] \in Scraping /\ pc[q] \in Scraping
        /\ loc[p].driver # 0 /\ loc[q].driver # 0
        /\ sessions[loc[p].driver].state = "live"
        /\ sessions[loc[q].driver].state = "live"

\* C10: after the first pass a found title, price, location or image list and
\* the description keep their values for good, and every extractor call of the
\* retry is for a field the first pass left not found and is made on the
\* re-located container.
C10_RetryKeepsFoundFields ==
    \A p \in Handlers :
        loc[p].first.set =>
            /\ loc[p].first.title # "Title not found" => loc[p].title = loc[p].first.title
            /\ loc[p].first.price # "Price not found" => loc[p].price = loc[p].first.price
            /\ loc[p].first.location # "Location not found" =>
                 loc[p].location = loc[p].first.location
            /\ loc[p].first.image_urls # <<>> => loc[p].image_urls = loc[p].first.image_urls
            /\ loc[p].description = loc[p].first.description
            /\ \A call \in loc[p].calls :
                 call[2] = 2 =>
                    /\ call[3] = 2
                    /\ call[1] = "title" => loc[p].first.title = "Title not found"
                    /\ call[1] = "price" => loc[p].first.price = "Price not found"
                    /\ call[1] = "location" => loc[p].first.location = "Location not found"
                    /\ call[1] = "image" => loc[p].first.image_urls = <<>>
                    /\ call[1] # "description"

\* a retry re-extracted the location and left the found price alone, on a page
\* whose price had changed in between
C10_Witness ==
    \E p \in Handlers :
        /\ pc[p] = "finally" /\ loc[p].retries = 1 /\ loc[p].ret.success
        /\ <<"location", 2, 2>> \in loc[p].calls
        /\ loc[p].location # "Location not found"
        /\ loc[p].price = loc[p].first.price
        /\ loc[p].price # extract_price_from_container(Located(p))

\* a success record for a marketplace-shaped URL is about to be returned
ReturningListing(p) ==
    /\ pc[p] = "finally" /\ loc[p].ret.success
    /\ loc[p].is_marketplace /\ loc[p].first.set

\* the fields the first pass left at their not-found sentinel
MissingAfterFirstPass(p) ==
    {f \in {"title", "price", "location", "description", "image"} :
       CASE f = "title" -> loc[p].first.title = TitleNotFound
         [] f = "price" -> loc[p].first.price = PriceNotFound
         [] f = "location" -> loc[p].first.location = LocationNotFound
         [] f = "description" -> loc[p].first.description = DescriptionNotFound
         [] f = "image" -> loc[p].first.image_urls = <<>>}

\* the fields whose extractor ran a second time
RanAgain(p) == {call[1] : call \in {c \in loc[p].calls : c[2] = 2}}

\* C11 as stated: for a marketplace-shaped URL every field (title, price,
\* location, description, image) still not found after the first pass has its
\* extractor run a second time before the record is returned.
C11_EveryMissingFieldRunsAgain ==
    \A p \in Handlers :
        ReturningListing(p) => MissingAfterFirstPass(p) \subseteq RanAgain(p)

\* C11 as the code has it: for a marketplace-shaped URL, when price, location
\* or image is still not found after the first pass, each of title, price,
\* location and image still not found has its extractor run a second time
\* before the success record is returned; the description extractor never
\* runs a second time, and a missing title or description alone causes no
\* second run.
C11_MissingFieldsRunAgainOnRetry ==
    \A p \in Handlers :
        ReturningListing(p) =>
            IF MissingAfterFirstPass(p) \cap {"price", "location", "image"} # {}
            THEN RanAgain(p) = MissingAfterFirstPass(p) \ {"description"}
            ELSE RanAgain(p) = {}

\* a retry ran the title extractor again, for a first pass that had found
\* neither title nor description, and left the description extractor alone
C11_Witness ==
    \E p \in Handlers :
        /\ ReturningListing(p)
        /\ {"title", "description"} \subseteq MissingAfterFirstPass(p)
        /\ "title" \in RanAgain(p)
        /\ "description" \notin RanAgain(p)

\* the candidates of the page of p's session in the order the locator visits
\* them: <<n, j>> is node j as a match of container selector n
VisitOrder(p) ==
    LET nodes == CurrentPage(sessions, loc[p].driver).nodes
    IN  {v \in (1..Len(container_selectors)) \X (1..Len(nodes)) :
           \E sel \in container_selectors[v[1]] : Matches(sel, nodes[v[2]])}

Precedes(u, v) == u[1] < v[1] \/ (u[1] = v[1] /\ u[2] < v[2])

\* C12: the locator returns the first candidate, in selector-list order and
\* then in match order within a selector, that has both a heading-like
\* descendant and a currency-bearing descendant; no qualifying candidate that
\* precedes the returned element is skipped, also when inspecting an earlier
\* candidate of the same selector raises.
C12_FirstQualifyingCandidateWins ==
    \A p \in Handlers :
        JustLocated(p) =>
            LET nodes == CurrentPage(sessions, loc[p].driver).nodes
                qualifying == {v \in VisitOrder(p) : HasBoth(nodes[v[2]])}
            IN  \A v \in qualifying :
                    (\A u \in qualifying : ~Precedes(u, v)) =>
                        loc[p].main_container.name = nodes[v[2]].name

\* the image extractor last ran on the container p holds, in the DOM its
\* session shows now
ImagesJustExtracted(p) ==
    \/ pc[p] = "retry_settle"
    \/ /\ pc[p] = "finally" /\ loc[p].ret.success
       /\ loc[p].retries = 0 \/ "image" \in RanAgain(p)

\* the images of container c in the order the extractor meets them: <<n, j>>
\* is descendant j as a match of image selector n
ImageVisits(c) ==
    {v \in (1..Len(image_selectors)) \X (1..Len(c.kids)) :
       \E sel \in image_selectors[v[1]] : Matches(sel, c.kids[v[2]])}

SrcOf(el) == get_attribute(el, "src")

\* the tests of an image that do not depend on what was collected before it
PassesImageTests(el) ==
    /\ ~el.err
    /\ Contains(SrcOf(el), "scontent") /\ Len(SrcOf(el)) > 20
    /\ \/ get_attribute(el, "width") = ""
       \/ /\ IsNumber(get_attribute(el, "width"))
          /\ ParseInt(get_attribute(el, "width")) >= 50

\* a qualifying image: it passes the tests and its source was not collected
QualifyingImage(c, v) ==
    /\ PassesImageTests(c.kids[v[2]])
    /\ \A u \in ImageVisits(c) :
          Precedes(u, v) /\ PassesImageTests(c.kids[u[2]]) =>
             SrcOf(c.kids[u[2]]) # SrcOf(c.kids[v[2]])

UnderCarousel(el) ==
    \E a \in el.anc : \/ StartsWith(a, "data-testid=") /\ Contains(a, "carousel")
                      \/ StartsWith(a, "data-testid=") /\ Contains(a, "pdp_images")

\* the first visit of a set of visits
FirstVisit(visits) == CHOOSE v \in visits : \A u \in visits : ~Precedes(u, v)

\* C13: the image extractor returns at most one URL; when it meets a
\* qualifying image under a carousel-marked ancestor it returns that image's
\* URL alone, whatever was collected before and without looking at later
\* images or selectors; otherwise it returns the first URL collected across
\* all selectors; and the record's image_url is that URL, or None.
C13_ImageCarouselFirstElseFirstCollected ==
    \A p \in Handlers :
        /\ Len(loc[p].image_urls) <= 1
        /\ pc[p] = "finally" /\ loc[p].ret.success =>
             loc[p].ret.image_url =
                IF loc[p].image_urls = <<>> THEN None ELSE loc[p].image_urls[1]
        /\ ImagesJustExtracted(p) =>
             LET c == Located(p)
                 qualifying == {v \in ImageVisits(c) : QualifyingImage(c, v)}
                 carousel == {v \in qualifying : UnderCarousel(c.kids[v[2]])}
             IN  loc[p].image_urls =
                    IF carousel # {} THEN <<SrcOf(c.kids[FirstVisit(carousel)[2]])>>
                    ELSE IF qualifying # {} THEN <<SrcOf(c.kids[FirstVisit(qualifying)[2]])>>
                    ELSE <<>>

\* the extractor returned a carousel image's URL although it had collected
\* another qualifying image before it
C13_Witness ==
    \E p \in Handlers :
        /\ pc[p] = "finally" /\ loc[p].ret.success /\ ImagesJustExtracted(p)
        /\ LET c == Located(p)
               qualifying == {v \in ImageVisits(c) : QualifyingImage(c, v)}
               carousel == {v \in qualifying : UnderCarousel(c.kids[v[2]])}
           IN  /\ carousel # {}
               /\ \E u \in qualifying : Precedes(u, FirstVisit(carousel))
               /\ loc[p].ret.image_url = SrcOf(c.kids[FirstVisit(carousel)[2]])

\* the texts that stand for a description without information: the not-found
\* sentinel, its substitute, and the message substituted for a description
\* with more than two currency markers
DescriptionPlaceholders ==
    {DescriptionNotFound, "No description available", "Description not available"}

\* C14: in a success reply for a marketplace listing the description field is
\* omitted whenever the description is the not-found sentinel, its substitute
\* "No description available" or the fixed not-available message; a
\* description field is added only for real extracted text.
C14_PlaceholderDescriptionOmitted ==
    \A p \in Handlers :
        pc[p] = "done" /\ loc[p].listing_details.success =>
            \A i \in 1..Len(channel[p].reply.fields) :
                channel[p].reply.fields[i].name = "Description" =>
                    channel[p].reply.fields[i].value \notin DescriptionPlaceholders
====
